---- MODULE Spec2Model ----
(***************************************************************************)
(* base_changeset/models/base.py: the hooks the module puts on every       *)
(* model ("base"): the cached resolver of tracked models, the create and   *)
(* write interceptors, the form-view augmenter and the permission check.   *)
(***************************************************************************)
EXTENDS Integers, Sequences, FiniteSets, TLC

\* ------------------------------------------------------------------ bounds
MaxRules == 1       \* changeset.field.rule records kept at once
MaxRecords == 2     \* records created over one behaviour
MaxBatch == 2       \* records handled by one create / write call

\* ------------------------------------------------------------- the universe
ModelNames == {"res.partner", "res.country"}
FieldNames == {"name", "street"}
NullValue == "null"                     \* the value of a field never set
Values == {NullValue, "a"}

\* context key '__no_changeset': the module's sentinel object, or not that
\* object (the key absent, or any value that compares unequal to the sentinel)
NoChangesetKeys == {"absent", "disable_changeset"}

Contexts ==
    [no_changeset : NoChangesetKeys, test_record_changeset : BOOLEAN,
     tracking_disable : {FALSE}]

\* the values a caller asks for: "name" may be asked to be empty, "street" not
Requested == [name |-> Values, street |-> {"a"}]

\* a vals dictionary: a mapping of some fields to values
ValsDicts ==
    UNION {{d \in [S -> Values] : \A f \in S : d[f] \in Requested[f]} :
             S \in SUBSET FieldNames}

NoVals == [f \in {} |-> NullValue]

VARIABLES
    test_enable,    \* config["test_enable"] of the process
    rules,          \* the changeset.field.rule table: sequence of model names
    cache,          \* the ormcache of models_to_track_changeset, by model name
    records,        \* the record table: id -> the record's model
    last            \* the last call made: its arguments, result and call trace

vars == <<test_enable, rules, cache, records, last>>

\* ------------------------------------------------------------------ helpers
InSeq(x, s) == \E i \in DOMAIN s : s[i] = x

SeqToSet(s) == {s[i] : i \in DOMAIN s}

NoDuplicates(s) == \A i, j \in DOMAIN s : s[i] = s[j] => i = j

\* the ordered record sets over a set of ids: sequences without repetition
OrderedSubsets(S, n) ==
    {s \in UNION {[1..k -> S] : k \in 0..n} : NoDuplicates(s)}

\* dict.update: b's keys win
Overlay(a, b) == [k \in DOMAIN a \cup DOMAIN b |-> IF k \in DOMAIN b THEN b[k] ELSE a[k]]

Restrict(d, S) == [k \in DOMAIN d \cap S |-> d[k]]

\* --------------------------------------------------------------- the resolver
\* search([]).mapped("model_id.model"): the models of the rules, each once,
\* in the order of their first rule
RECURSIVE Mapped(_)
Mapped(rs) ==
    IF rs = <<>> THEN <<>>
    ELSE LET front == Mapped(SubSeq(rs, 1, Len(rs) - 1))
             m == rs[Len(rs)]
         IN IF InSeq(m, front) THEN front ELSE Append(front, m)

\* a faulty variant: the test entry added whenever the context carries the flag
ComputeModelsNoTestCheck(ctx) ==
    LET models == Mapped(rules)
    IN IF ctx.test_record_changeset
       THEN IF ~InSeq("res.partner", models)
            THEN models \o <<"res.partner">>
            ELSE models
       ELSE models

\* the body of models_to_track_changeset, lines 81-87
ComputeModels(ctx) ==
    LET models == Mapped(rules)
    IN IF test_enable /\ ctx.test_record_changeset
       THEN IF ~InSeq("res.partner", models)
            THEN models \o <<"res.partner">>
            ELSE models
       ELSE models

NoEntry == [hit |-> FALSE, val |-> <<>>]

\* @ormcache(skiparg=1): the key is (model name, method); the context is no
\* part of it. Gives the value returned and the cache afterwards.
models_to_track_changeset(c, name, ctx) ==
    IF c[name].hit
    THEN [ret |-> c[name].val, cache |-> c]
    ELSE LET v == ComputeModels(ctx)
         IN [ret |-> v, cache |-> [c EXCEPT ![name] = [hit |-> TRUE, val |-> v]]]

\* a faulty variant: the tracked set is not asked
_changeset_disabled_untracked(c, name, ctx) ==
    IF ctx.no_changeset = "disable_changeset"
    THEN [ret |-> TRUE, cache |-> c]
    ELSE IF test_enable /\ ~ctx.test_record_changeset
    THEN [ret |-> TRUE, cache |-> c]
    ELSE [ret |-> FALSE, cache |-> c]

\* a faulty variant: the sentinel is not looked at
_changeset_disabled_no_sentinel(c, name, ctx) ==
    IF test_enable /\ ~ctx.test_record_changeset
    THEN [ret |-> TRUE, cache |-> c]
    ELSE LET r == models_to_track_changeset(c, name, ctx)
         IN [ret |-> ~InSeq(name, r.ret), cache |-> r.cache]

\* _changeset_disabled, lines 117-125
_changeset_disabled(c, name, ctx) ==
    IF ctx.no_changeset = "disable_changeset"
    THEN [ret |-> TRUE, cache |-> c]
    ELSE IF test_enable /\ ~ctx.test_record_changeset
    THEN [ret |-> TRUE, cache |-> c]
    ELSE LET r == models_to_track_changeset(c, name, ctx)
         IN [ret |-> ~InSeq(name, r.ret), cache |-> r.cache]

\* ------------------------------------------------- record.changeset (external)
\* add_changeset(record, values, create): the mapping to apply now, for the set
\* `deferred` of the keys of `values` that the rules hold back. On an update the
\* deferred keys are left out; on a create the record already holds the values,
\* so the deferred keys come back with their pre-change value.
add_changeset(values, create, deferred) ==
    IF create
    THEN [k \in DOMAIN values |-> IF k \in deferred THEN NullValue ELSE values[k]]
    ELSE Restrict(values, DOMAIN values \ deferred)

\* -------------------------------------------------------------- the call trace
\* a call made while a request is handled: what was called, on which records,
\* with which values, and the mapping it returned (add_changeset)
Event(ev, ids, vals, create, out) ==
    [ev |-> ev, ids |-> ids, vals |-> vals, create |-> create, out |-> out]

\* Base.write entered on the records `ids` under the context `ctx`
Entry(ids, vals, ctx) ==
    [ev |-> "write", ids |-> ids, vals |-> vals, ctx |-> ctx]

\* ------------------------------------------------------- the base operations
Defaults == [f \in FieldNames |-> NullValue]

\* The field values a call has given to the records it touched, by id. (No
\* code of the module reads a stored value, so only what the call in progress
\* writes is kept.)
NoneWritten == [r \in {} |-> NoVals]

\* super().write(values) on the records `ids`
BaseWrite(w, ids, values) ==
    [r \in DOMAIN w \cup SeqToSet(ids) |->
        IF InSeq(r, ids)
        THEN Overlay(IF r \in DOMAIN w THEN w[r] ELSE NoVals, values)
        ELSE w[r]]

BaseWriteEvents(ids, values) ==
    [i \in DOMAIN ids |-> Event("base_write", <<ids[i]>>, values, FALSE, NoVals)]

\* super().create(vals_list): the new records take the next ids
NewIds(recs, vals_list) == [i \in DOMAIN vals_list |-> Len(recs) + i]

BaseCreate(recs, name, vals_list) ==
    recs \o [i \in DOMAIN vals_list |-> name]

\* the values of the new records: the defaults, then the values supplied
BaseCreateVals(recs, vals_list) ==
    [r \in {Len(recs) + i : i \in DOMAIN vals_list} |->
        Overlay(Defaults, vals_list[r - Len(recs)])]

BaseCreateEvents(recs, vals_list) ==
    [i \in DOMAIN vals_list |->
        Event("base_create", <<Len(recs) + i>>, vals_list[i], TRUE, NoVals)]

\* --------------------------------------------------------------------- write
\* a faulty variant: the base write applies the values asked for
RECURSIVE WriteLoopRequested(_, _, _, _, _)
WriteLoopRequested(w, ids, ctx, values, defer) ==
    IF ids = <<>> THEN [written |-> w, events |-> <<>>]
    ELSE LET record == Head(ids)
             local_values == add_changeset(values, FALSE, Head(defer))
             applied == BaseWrite(w, <<record>>, values)
             rest == WriteLoopRequested(applied, Tail(ids), ctx, values, Tail(defer))
         IN [written |-> rest.written,
             events |-> <<Event("add_changeset", <<record>>, values, FALSE, local_values),
                          Event("base_write", <<record>>, values, FALSE, NoVals)>>
                        \o rest.events]

\* the loop of lines 112-114 over the records still to handle
RECURSIVE WriteLoop(_, _, _, _, _)
WriteLoop(w, ids, ctx, values, defer) ==
    IF ids = <<>> THEN [written |-> w, events |-> <<>>]
    ELSE LET record == Head(ids)
             local_values == add_changeset(values, FALSE, Head(defer))
             applied == BaseWrite(w, <<record>>, local_values)
             rest == WriteLoop(applied, Tail(ids), ctx, values, Tail(defer))
         IN [written |-> rest.written,
             events |-> <<Event("add_changeset", <<record>>, values, FALSE, local_values),
                          Event("base_write", <<record>>, local_values, FALSE, NoVals)>>
                        \o rest.events]

\* a faulty variant: the intercepted write returns what the last base write returned
write_returns_base(c, w, name, ids, ctx, values, defer, base_ret) ==
    LET disabled == _changeset_disabled(c, name, ctx)
        entry == <<Entry(ids, values, ctx)>>
    IN IF disabled.ret
       THEN [ret |-> base_ret, cache |-> disabled.cache, disabled |-> TRUE,
             written |-> BaseWrite(w, ids, values),
             events |-> entry \o BaseWriteEvents(ids, values)]
       ELSE LET loop == WriteLoop(w, ids, ctx, values, defer)
            IN [ret |-> base_ret, cache |-> disabled.cache, disabled |-> FALSE,
                written |-> loop.written, events |-> entry \o loop.events]

\* Base.write, lines 108-115. base_ret is what super().write returns.
write(c, w, name, ids, ctx, values, defer, base_ret) ==
    LET disabled == _changeset_disabled(c, name, ctx)
        entry == <<Entry(ids, values, ctx)>>
    IN IF disabled.ret
       THEN [ret |-> base_ret, cache |-> disabled.cache, disabled |-> TRUE,
             written |-> BaseWrite(w, ids, values),
             events |-> entry \o BaseWriteEvents(ids, values)]
       ELSE LET loop == WriteLoop(w, ids, ctx, values, defer)
            IN [ret |-> TRUE, cache |-> disabled.cache, disabled |-> FALSE,
                written |-> loop.written, events |-> entry \o loop.events]

\* -------------------------------------------------------------------- create
\* a faulty variant: the comparison of line 99 turned round
DifferingValsInverted(local_vals, vals) ==
    Restrict(local_vals, {key \in DOMAIN local_vals : vals[key] = local_vals[key]})

\* lines 98-100: the keys whose returned value differs from the supplied one
DifferingVals(local_vals, vals) ==
    Restrict(local_vals, {key \in DOMAIN local_vals : vals[key] # local_vals[key]})

\* a faulty variant: the inner write without the sentinel
InnerContextNoSentinel(ctx) ==
    [ctx EXCEPT !.tracking_disable = TRUE]

\* lines 102-105: the context of the inner write
InnerContext(ctx) ==
    [ctx EXCEPT !.no_changeset = "disable_changeset", !.tracking_disable = TRUE]

\* the loop of lines 94-105 over zip(result, vals_list)
RECURSIVE CreateLoop(_, _, _, _, _, _, _)
CreateLoop(c, w, name, result, ctx, vals_list, defer) ==
    IF result = <<>> \/ vals_list = <<>>
    THEN [cache |-> c, written |-> w, events |-> <<>>]
    ELSE LET this == Head(result)
             vals == Head(vals_list)
             returned == add_changeset(vals, TRUE, Head(defer))
             local_vals == DifferingVals(returned, vals)
             call == <<Event("add_changeset", <<this>>, vals, TRUE, returned)>>
             inner == IF DOMAIN local_vals # {}
                      THEN write(c, w, name, <<this>>, InnerContext(ctx),
                                 local_vals, <<{}>>, TRUE)
                      ELSE [ret |-> TRUE, cache |-> c, disabled |-> TRUE,
                            written |-> w, events |-> <<>>]
             rest == CreateLoop(inner.cache, inner.written, name, Tail(result), ctx,
                                Tail(vals_list), Tail(defer))
         IN [cache |-> rest.cache, written |-> rest.written,
             events |-> call \o inner.events \o rest.events]

\* Base.create, lines 89-106
create(c, recs, name, ctx, vals_list, defer) ==
    LET result == NewIds(recs, vals_list)
        created == BaseCreateVals(recs, vals_list)
        base == BaseCreateEvents(recs, vals_list)
        disabled == _changeset_disabled(c, name, ctx)
    IN IF disabled.ret
       THEN [ret |-> result, cache |-> disabled.cache, disabled |-> TRUE,
             records |-> BaseCreate(recs, name, vals_list), written |-> created,
             events |-> base]
       ELSE LET loop == CreateLoop(disabled.cache, created, name, result, ctx,
                                   vals_list, defer)
            IN [ret |-> result, cache |-> loop.cache, disabled |-> FALSE,
                records |-> BaseCreate(recs, name, vals_list),
                written |-> loop.written, events |-> base \o loop.events]

\* ---------------------------------------------------------------- permission
\* a faulty variant: superuser and group both asked for
_user_can_see_changeset_both(is_superuser, has_group) ==
    is_superuser /\ has_group

\* _user_can_see_changeset, lines 204-209
_user_can_see_changeset(is_superuser, has_group) ==
    is_superuser \/ has_group

\* _compute_user_can_see_changeset, lines 211-214: the field of each record
_compute_user_can_see_changeset(ids, is_superuser, has_group) ==
    LET user_can_see_changeset == _user_can_see_changeset(is_superuser, has_group)
    IN [rec \in SeqToSet(ids) |-> user_can_see_changeset]

\* ------------------------------------------------------------------ get_view
\* an element of the view markup
Node(tag, name, kids) == [tag |-> tag, name |-> name, kids |-> kids]

\* lines 170-199: the button with its two fields, first the hidden counter
XmlButton ==
    Node("button", "action_record_changeset_change_view",
         <<Node("field", "count_changesets", <<>>),
           Node("field", "count_pending_changeset_changes", <<>>)>>)

IsButtonBox(node) == node.tag = "div" /\ node.name = "button_box"

\* lines 169-200: every //div[@name='button_box'] gets the button as first child
RECURSIVE InsertButtons(_)
InsertButtons(node) ==
    LET kids == [i \in DOMAIN node.kids |-> InsertButtons(node.kids[i])]
    IN [node EXCEPT !.kids = IF IsButtonBox(node) THEN <<XmlButton>> \o kids ELSE kids]

\* the markup as text: `raw` says the text is not in the form the serializer
\* writes (an XML declaration, another quoting); parsing forgets it
EtreeXML(arch) == arch.doc

EtreeToString(doc) == [raw |-> FALSE, doc |-> doc]

\* get_view, lines 158-202. base is what super().get_view returns.
get_view(c, name, ctx, is_superuser, has_group, view_type, base) ==
    IF view_type # "form"
    THEN [ret |-> base, cache |-> c]
    ELSE LET tracked == models_to_track_changeset(c, name, ctx)
         IN IF InSeq(name, tracked.ret) /\ _user_can_see_changeset(is_superuser, has_group)
            THEN [ret |-> EtreeToString(InsertButtons(EtreeXML(base))),
                  cache |-> tracked.cache]
            ELSE [ret |-> base, cache |-> tracked.cache]

\* the views the base returns
Sheet(kids) == Node("sheet", "", kids)

ButtonBox(kids) == Node("div", "button_box", kids)

FormDocs ==
    { Node("form", "", <<Sheet(<<Node("field", "name", <<>>)>>)>>),
      Node("form", "", <<Sheet(<<ButtonBox(<<>>), Node("field", "name", <<>>)>>)>>),
      Node("form", "", <<Sheet(<<ButtonBox(<<Node("button", "toggle_active", <<>>)>>)>>),
                         Node("page", "button_box", <<>>),
                         Node("div", "title", <<>>)>>),
      Node("form", "", <<ButtonBox(<<ButtonBox(<<>>)>>)>>) }

BaseViews(view_type) ==
    IF view_type = "form"
    THEN [raw : BOOLEAN, doc : FormDocs]
    ELSE [raw : BOOLEAN, doc : {Node("tree", "", <<Node("field", "name", <<>>)>>)}]

ViewTypes == {"form", "tree"}

\* number of elements with a tag in a document
RECURSIVE CountTag(_, _)
CountTag(node, tag) ==
    LET below[i \in 0..Len(node.kids)] ==
            IF i = 0 THEN 0 ELSE below[i - 1] + CountTag(node.kids[i], tag)
    IN (IF node.tag = tag THEN 1 ELSE 0) + below[Len(node.kids)]

RECURSIVE CountButtonBoxes(_)
CountButtonBoxes(node) ==
    LET below[i \in 0..Len(node.kids)] ==
            IF i = 0 THEN 0 ELSE below[i - 1] + CountButtonBoxes(node.kids[i])
    IN (IF IsButtonBox(node) THEN 1 ELSE 0) + below[Len(node.kids)]

\* ------------------------------------------------------------ the state machine
\* the call in progress: its arguments and what it gave; idle between requests
Idle ==
    [kind |-> "idle", model |-> "res.partner",
     ctx |-> [no_changeset |-> "absent", test_record_changeset |-> FALSE,
              tracking_disable |-> FALSE],
     ids |-> <<>>, vals_list |-> <<>>, values |-> NoVals, defer |-> <<>>,
     base_ret |-> TRUE, is_superuser |-> FALSE, has_group |-> FALSE,
     view_type |-> "form", base |-> [raw |-> FALSE, doc |-> Node("form", "", <<>>)],
     ret |-> TRUE, result |-> <<>>, models |-> <<>>,
     arch |-> [raw |-> FALSE, doc |-> Node("form", "", <<>>)],
     visible |-> <<>>, disabled |-> TRUE, written |-> NoneWritten, events |-> <<>>]

EmptyCache == [m \in ModelNames |-> NoEntry]

\* the contexts of the calls that never read '__no_changeset'
PlainContexts == {ctx \in Contexts : ctx.no_changeset = "absent"}

\* the ids of the records of a model
IdsOf(recs, name) == {r \in DOMAIN recs : recs[r] = name}

\* what add_changeset may defer, per record: any keys of the values; nothing is
\* asked of it when the call is not intercepted
Deferrals(valss, active) ==
    IF active
    THEN {d \in [DOMAIN valss -> SUBSET FieldNames] :
            \A i \in DOMAIN valss : d[i] \subseteq DOMAIN valss[i]}
    ELSE {[i \in DOMAIN valss |-> {}]}

Init ==
    /\ test_enable \in BOOLEAN
    /\ rules = <<>>
    /\ cache = EmptyCache
    /\ records = <<>>
    /\ last = Idle

\* changeset.field.rule create: the host clears the caches
RuleCreate ==
    /\ last.kind = "idle"
    /\ Len(rules) < MaxRules
    /\ \E m \in ModelNames : rules' = Append(rules, m)
    /\ cache' = EmptyCache
    /\ UNCHANGED <<test_enable, records, last>>

\* changeset.field.rule unlink: the host clears the caches
RuleUnlink ==
    /\ last.kind = "idle"
    /\ \E i \in DOMAIN rules :
          rules' = SubSeq(rules, 1, i - 1) \o SubSeq(rules, i + 1, Len(rules))
    /\ cache' = EmptyCache
    /\ UNCHANGED <<test_enable, records, last>>

\* a call of models_to_track_changeset (as line 54 makes)
ResolverCall ==
    /\ last.kind = "idle"
    /\ \E name \in ModelNames, ctx \in PlainContexts :
          \E r \in {models_to_track_changeset(cache, name, ctx)} :
             /\ cache' = r.cache
             /\ last' = [Idle EXCEPT !.kind = "models_to_track_changeset",
                                     !.model = name, !.ctx = ctx, !.models = r.ret]
    /\ UNCHANGED <<test_enable, rules, records>>

CreateCall ==
    /\ last.kind = "idle"
    /\ \E name \in ModelNames, ctx \in Contexts,
          vals_list \in UNION {[1..n -> ValsDicts] : n \in 0..MaxBatch} :
          /\ Len(records) + Len(vals_list) <= MaxRecords
          /\ \E defer \in Deferrals(vals_list, ~_changeset_disabled(cache, name, ctx).ret) :
                \E r \in {create(cache, records, name, ctx, vals_list, defer)} :
                   /\ cache' = r.cache
                   /\ records' = r.records
                   /\ last' = [Idle EXCEPT !.kind = "create", !.model = name,
                                           !.ctx = ctx, !.vals_list = vals_list,
                                           !.defer = defer, !.result = r.ret,
                                           !.disabled = r.disabled,
                                           !.written = r.written,
                                           !.events = r.events]
    /\ UNCHANGED <<test_enable, rules>>

WriteCall ==
    /\ last.kind = "idle"
    /\ \E name \in ModelNames, ctx \in Contexts, values \in ValsDicts,
          base_ret \in BOOLEAN :
          \E ids \in OrderedSubsets(IdsOf(records, name), MaxBatch) :
             \E defer \in Deferrals([i \in DOMAIN ids |-> values],
                                    ~_changeset_disabled(cache, name, ctx).ret) :
                \E r \in {write(cache, NoneWritten, name, ids, ctx, values, defer, base_ret)} :
                   /\ cache' = r.cache
                   /\ last' = [Idle EXCEPT !.kind = "write", !.model = name,
                                           !.ctx = ctx, !.ids = ids,
                                           !.values = values, !.defer = defer,
                                           !.base_ret = base_ret, !.ret = r.ret,
                                           !.disabled = r.disabled,
                                           !.written = r.written,
                                           !.events = r.events]
    /\ UNCHANGED <<test_enable, rules, records>>

GetViewCall ==
    /\ last.kind = "idle"
    /\ \E name \in ModelNames, ctx \in PlainContexts, su \in BOOLEAN, grp \in BOOLEAN,
          view_type \in ViewTypes :
          \E base \in BaseViews(view_type) :
             \E r \in {get_view(cache, name, ctx, su, grp, view_type, base)} :
                /\ cache' = r.cache
                /\ last' = [Idle EXCEPT !.kind = "get_view", !.model = name,
                                        !.ctx = ctx, !.is_superuser = su,
                                        !.has_group = grp, !.view_type = view_type,
                                        !.base = base, !.arch = r.ret]
    /\ UNCHANGED <<test_enable, rules, records>>

ComputeVisibleCall ==
    /\ last.kind = "idle"
    /\ \E name \in ModelNames, su \in BOOLEAN, grp \in BOOLEAN :
          \E ids \in OrderedSubsets(IdsOf(records, name), MaxBatch) :
             last' = [Idle EXCEPT !.kind = "_compute_user_can_see_changeset",
                                  !.model = name, !.ids = ids, !.is_superuser = su,
                                  !.has_group = grp,
                                  !.ret = _user_can_see_changeset(su, grp),
                                  !.visible =
                                      _compute_user_can_see_changeset(ids, su, grp)]
    /\ UNCHANGED <<test_enable, rules, cache, records>>

\* the request ends: its environment and call frame are dropped
EndRequest ==
    /\ last.kind # "idle"
    /\ last' = Idle
    /\ UNCHANGED <<test_enable, rules, cache, records>>

Next ==
    \/ RuleCreate
    \/ RuleUnlink
    \/ ResolverCall
    \/ CreateCall
    \/ WriteCall
    \/ GetViewCall
    \/ ComputeVisibleCall
    \/ EndRequest

Spec == Init /\ [][Next]_vars

\* ------------------------------------------------------------- what is claimed
\* the models that have a rule now
RuleModels == SeqToSet(rules)

\* the tracked set for a call: the models of the rules, plus the test-only
\* entry when the process runs tests and the context carries the test flag
TrackedSet(ctx) ==
    RuleModels \cup (IF test_enable /\ ctx.test_record_changeset
                     THEN {"res.partner"} ELSE {})

AddChangesetCalls == {j \in DOMAIN last.events : last.events[j].ev = "add_changeset"}

\* the record table before the create in `last`
RecordsBefore == SubSeq(records, 1, Len(records) - Len(last.vals_list))

\* the call in `last` did what the base operation alone does and returned
\* what the base operation returns
LikeBase ==
    /\ AddChangesetCalls = {}
    /\ last.kind = "write" =>
          /\ last.ret = last.base_ret
          /\ DOMAIN last.written = SeqToSet(last.ids)
          /\ \A r \in SeqToSet(last.ids) : \A k \in DOMAIN last.values :
                last.written[r][k] = last.values[k]
          /\ last.events = <<Entry(last.ids, last.values, last.ctx)>>
                             \o BaseWriteEvents(last.ids, last.values)
    /\ last.kind = "create" =>
          /\ last.result = NewIds(RecordsBefore, last.vals_list)
          /\ records = BaseCreate(RecordsBefore, last.model, last.vals_list)
          /\ DOMAIN last.written = SeqToSet(last.result)
          /\ \A i \in DOMAIN last.vals_list : \A k \in DOMAIN last.vals_list[i] :
                last.written[last.result[i]][k] = last.vals_list[i][k]
          /\ last.events = BaseCreateEvents(RecordsBefore, last.vals_list)

\* C1: on a model that is not in the tracked set, create and write call
\* add_changeset never, apply every requested value and return what the base
\* operation returns.
C1_UntrackedLikeBase ==
    (last.kind \in {"create", "write"} /\ last.model \notin TrackedSet(last.ctx))
        => LikeBase

\* a write of values on records of a model without rule, in a context that
\* neither carries the sentinel nor is silenced by the test mode
C1_Witness ==
    /\ last.kind = "write"
    /\ ~test_enable
    /\ last.ctx.no_changeset = "absent"
    /\ RuleModels # {}
    /\ last.model \notin TrackedSet(last.ctx)
    /\ last.ids # <<>>
    /\ DOMAIN last.values # {}
    /\ ~last.base_ret

\* C2: an intercepted create on a tracked model gives every new record one
\* changeset (one add_changeset call with create set), and when it returns the
\* fields the changeset defers hold the default value and the fields it
\* approves hold the requested value.
C2_CreateDefersAndApproves ==
    (last.kind = "create" /\ ~last.disabled /\ last.model \in TrackedSet(last.ctx))
        => \A i \in DOMAIN last.vals_list :
              /\ Cardinality({j \in AddChangesetCalls :
                                 /\ last.events[j].ids = <<last.result[i]>>
                                 /\ last.events[j].create}) = 1
              /\ records[last.result[i]] = last.model
              /\ \A k \in DOMAIN last.vals_list[i] :
                    last.written[last.result[i]][k] =
                        IF k \in last.defer[i] THEN Defaults[k]
                        ELSE last.vals_list[i][k]

\* a record created with one asked-for value deferred and another approved
C2_Witness ==
    /\ last.kind = "create"
    /\ ~last.disabled
    /\ \E i \in DOMAIN last.vals_list :
          /\ DOMAIN last.vals_list[i] = FieldNames
          /\ last.defer[i] = {"name"}
          /\ last.vals_list[i]["name"] = "a"
          /\ last.written[last.result[i]]["name"] = NullValue
          /\ last.written[last.result[i]]["street"] = "a"

\* C3: with the sentinel under '__no_changeset', create and write never call
\* add_changeset, whatever the model and the test mode: the base operation is
\* applied with all the values and its result returned.
C3_SentinelBypasses ==
    (last.kind \in {"create", "write"} /\ last.ctx.no_changeset = "disable_changeset")
        => LikeBase

\* a write with the sentinel on records of a model that has a rule, in a
\* context the test mode does not silence
C3_Witness ==
    /\ last.kind = "write"
    /\ last.ctx.no_changeset = "disable_changeset"
    /\ last.model \in RuleModels
    /\ test_enable
    /\ last.ctx.test_record_changeset
    /\ last.ids # <<>>
    /\ DOMAIN last.values # {}
    /\ ~last.base_ret

\* the call in `last` was intercepted
Intercepted == last.kind \in {"create", "write"} /\ (~last.disabled \/ AddChangesetCalls # {})

\* C4 as claimed: a create or write is intercepted only if its model has a
\* configuration rule at the moment of the operation.
C4_InterceptedOnlyIfRule ==
    (last.kind \in {"create", "write"} /\ AddChangesetCalls # {})
        => last.model \in RuleModels

\* C4 as amended: a create or write is intercepted only if its model has a
\* configuration rule at the moment of the operation, or is the test-only
\* entry 'res.partner' while the process runs tests and the context carries
\* the test flag.
C4_InterceptedOnlyIfTracked ==
    Intercepted => last.model \in TrackedSet(last.ctx)

\* an intercepted write on a model with a rule, decided by a cached answer
\* of the resolver
C4_Witness ==
    /\ last.kind = "write"
    /\ AddChangesetCalls # {}
    /\ last.model \in RuleModels
    /\ cache[last.model].hit
    /\ \E m \in ModelNames : m # last.model /\ ~cache[m].hit

\* C5: an intercepted write returns true, for every record set and whatever
\* add_changeset deferred.
C5_WriteReturnsTrue ==
    (last.kind = "write" /\ ~last.disabled) => last.ret = TRUE

\* an intercepted write that deferred some of the values, over a base write
\* that reported failure
C5_Witness ==
    /\ last.kind = "write"
    /\ ~last.disabled
    /\ ~last.base_ret
    /\ \E i \in DOMAIN last.ids : last.defer[i] # {} /\ last.defer[i] # DOMAIN last.values

\* every button box of a document starts with the inserted button
RECURSIVE BoxesStartWithButton(_)
BoxesStartWithButton(node) ==
    /\ IsButtonBox(node) => (node.kids # <<>> /\ node.kids[1] = XmlButton)
    /\ \A i \in DOMAIN node.kids : BoxesStartWithButton(node.kids[i])

\* C6: get_view inserts exactly one button with its two fields into the
\* button box, and only when the model is tracked and the user has the
\* changeset permission; in every other case the markup returned is the
\* base markup.
C6_ViewAugmentedOnlyIfTrackedAndPermitted ==
    last.kind = "get_view" =>
        LET tracked == last.model \in TrackedSet(last.ctx)
            permitted == last.is_superuser \/ last.has_group
            boxes == CountButtonBoxes(last.base.doc)
            buttons == CountTag(last.arch.doc, "button") - CountTag(last.base.doc, "button")
            fields == CountTag(last.arch.doc, "field") - CountTag(last.base.doc, "field")
        IN /\ ~(tracked /\ permitted) => last.arch = last.base
           /\ last.arch.doc # last.base.doc =>
                 /\ tracked /\ permitted
                 /\ buttons = boxes
                 /\ fields = 2 * boxes
                 /\ BoxesStartWithButton(last.arch.doc)
           /\ last.arch.doc = last.base.doc => (buttons = 0 /\ fields = 0)

\* C7: the permission check is true for a superuser whatever the group, for
\* another user exactly when the user is in the changeset group, and the
\* visibility field of every record of the set equals it.
C7_PermissionAndVisibility ==
    last.kind = "_compute_user_can_see_changeset" =>
        /\ last.is_superuser => last.ret
        /\ ~last.is_superuser => (last.ret <=> last.has_group)
        /\ DOMAIN last.visible = SeqToSet(last.ids)
        /\ \A rec \in SeqToSet(last.ids) : last.visible[rec] = last.ret

\* the field computed on two records for a superuser outside the group
C7_Witness ==
    /\ last.kind = "_compute_user_can_see_changeset"
    /\ last.is_superuser
    /\ ~last.has_group
    /\ Len(last.ids) = 2
    /\ \A rec \in SeqToSet(last.ids) : last.visible[rec]

\* C8: an intercepted write handles the records one at a time in the order of
\* the record set: add_changeset(record, values), then the base write of that
\* record with the mapping add_changeset returned, then the next record.
C8_WriteRecordByRecord ==
    (last.kind = "write" /\ ~last.disabled) =>
        LET ev == last.events
        IN /\ Len(ev) = 1 + 2 * Len(last.ids)
           /\ ev[1] = Entry(last.ids, last.values, last.ctx)
           /\ \A i \in DOMAIN last.ids :
                 /\ ev[2 * i].ev = "add_changeset"
                 /\ ev[2 * i].ids = <<last.ids[i]>>
                 /\ ev[2 * i].vals = last.values
                 /\ ~ev[2 * i].create
                 /\ ev[2 * i + 1].ev = "base_write"
                 /\ ev[2 * i + 1].ids = <<last.ids[i]>>
                 /\ ev[2 * i + 1].vals = ev[2 * i].out
                 /\ last.written[last.ids[i]] = ev[2 * i].out

\* an intercepted write over two records, not in the order of their ids, with
\* something deferred for the first only
C8_Witness ==
    /\ last.kind = "write"
    /\ ~last.disabled
    /\ last.ids = <<2, 1>>
    /\ last.defer[1] # {}
    /\ last.defer[2] = {}
    /\ last.events[3].vals # last.values
    /\ last.events[5].vals = last.values

\* the keys of a returned mapping whose value differs from the supplied one
Differing(e) == {k \in DOMAIN e.out : e.out[k] # e.vals[k]}

\* C9: an intercepted create first creates all the records with the supplied
\* values, then calls add_changeset once per record, with create set and the
\* record's own values; the inner write happens only if a returned value
\* differs from the supplied one, holds exactly the differing keys, and runs
\* with the sentinel and tracking_disable, so that it calls add_changeset no
\* further.
C9_CreateThenChangesets ==
    (last.kind = "create" /\ ~last.disabled) =>
        LET ev == last.events
            n == Len(last.vals_list)
        IN /\ Len(ev) >= n
           /\ \A i \in 1..n :
                 /\ ev[i].ev = "base_create"
                 /\ ev[i].ids = <<last.result[i]>>
                 /\ ev[i].vals = last.vals_list[i]
           /\ \A j \in DOMAIN ev : j > n => ev[j].ev # "base_create"
           /\ Cardinality(AddChangesetCalls) = n
           /\ \A i \in 1..n :
                 \E j \in AddChangesetCalls :
                    /\ ev[j].ids = <<last.result[i]>>
                    /\ ev[j].create
                    /\ ev[j].vals = last.vals_list[i]
           /\ \A j, k \in AddChangesetCalls : j < k => ev[j].ids[1] < ev[k].ids[1]
           /\ \A j \in AddChangesetCalls :
                 (Differing(ev[j]) # {}) <=>
                    (j < Len(ev) /\ ev[j + 1].ev = "write")
           /\ \A j \in DOMAIN ev : ev[j].ev = "write" =>
                 /\ j - 1 \in AddChangesetCalls
                 /\ ev[j].ids = ev[j - 1].ids
                 /\ ev[j].vals = Restrict(ev[j - 1].out, Differing(ev[j - 1]))
                 /\ DOMAIN ev[j].vals # {}
                 /\ ev[j].ctx.no_changeset = "disable_changeset"
                 /\ ev[j].ctx.tracking_disable
                 /\ j < Len(ev)
                 /\ ev[j + 1].ev = "base_write"
                 /\ ev[j + 1].ids = ev[j].ids
                 /\ ev[j + 1].vals = ev[j].vals

\* a create of two records: the first needs the inner write, the second has
\* a value deferred that was asked to be empty already, and needs none
C9_Witness ==
    /\ last.kind = "create"
    /\ ~last.disabled
    /\ Len(last.vals_list) = 2
    /\ last.defer[1] # {}
    /\ last.defer[2] # {}
    /\ last.vals_list[1] # last.vals_list[2]
    /\ Len(last.events) = 6
    /\ last.events[4].ev = "write"
    /\ last.events[6].ev = "add_changeset"

\* C10: in test mode every call of the resolver whose context carries the test
\* flag returns a list that contains 'res.partner', and no list returned holds
\* a model twice.
C10_ResolverTestEntry ==
    last.kind = "models_to_track_changeset" =>
        /\ NoDuplicates(last.models)
        /\ (test_enable /\ last.ctx.test_record_changeset)
              => InSeq("res.partner", last.models)

====
